---- MODULE Spec2Model ----
(***************************************************************************)
(* Model of BusDuctDatabase.py: the cleaning pipeline (is_blank,           *)
(* normalize_romp, normalize_sap_to_int, clean_one_file, build_database)   *)
(* and the four search tabs that filter the built table.                   *)
(*                                                                         *)
(* A text value is a sequence of one-character strings.  A cell is a       *)
(* record [t, s, v]:                                                       *)
(*   t = "null"   NaN / None / pd.NA / NaT                                 *)
(*   t = "str"    a Python str, s its characters                           *)
(*   t = "int"    an integer, s its decimal digits without leading zeros,  *)
(*                v its sign (1 or -1)                                     *)
(*   t = "float"  an integral float such as 40.0, s and v as for "int"     *)
(*   t = "date"   a Timestamp / datetime.date, v = year*10000+month*100+day*)
(***************************************************************************)
EXTENDS Integers, Sequences, FiniteSets, TLC

\* ------------------------------------------------------------------------
\* Bounds of the model
\* ------------------------------------------------------------------------
MaxFiles == 2
MaxRows == 3
MaxLen == 3

\* ------------------------------------------------------------------------
\* Cells and text
\* ------------------------------------------------------------------------
Digits == {"0", "1", "2", "3", "4", "5", "6", "7", "8", "9"}

DigitVal == [c \in Digits |->
               CASE c = "0" -> 0 [] c = "1" -> 1 [] c = "2" -> 2 [] c = "3" -> 3
                 [] c = "4" -> 4 [] c = "5" -> 5 [] c = "6" -> 6 [] c = "7" -> 7
                 [] c = "8" -> 8 [] c = "9" -> 9]

DigitChar == [n \in 0..9 |-> CHOOSE c \in Digits : DigitVal[c] = n]

Null == [t |-> "null", s |-> <<>>, v |-> 0]
Str(s) == [t |-> "str", s |-> s, v |-> 0]
IntCell(digits, sign) == [t |-> "int", s |-> digits, v |-> sign]
FloatCell(digits, sign) == [t |-> "float", s |-> digits, v |-> sign]
DateCell(y, m, d) == [t |-> "date", s |-> <<>>, v |-> y * 10000 + m * 100 + d]

\* pd.isna(x) on a scalar
isna(x) == x.t = "null"

AllDigits(s) == \A i \in 1..Len(s) : s[i] \in Digits

Drop(s, n) == SubSeq(s, n + 1, Len(s))
Take(s, n) == SubSeq(s, 1, n)

RECURSIVE NatDigits(_)
NatDigits(n) == IF n < 10 THEN <<DigitChar[n]>>
                ELSE NatDigits(n \div 10) \o <<DigitChar[n % 10]>>

Pad2(n) == IF n < 10 THEN <<"0">> \o NatDigits(n) ELSE NatDigits(n)

\* str(x)
StrOf(x) ==
  CASE x.t = "str" -> x.s
    [] x.t = "int" -> (IF x.v < 0 THEN <<"-">> ELSE <<>>) \o x.s
    [] x.t = "float" -> (IF x.v < 0 THEN <<"-">> ELSE <<>>) \o x.s \o <<".", "0">>
    [] x.t = "date" -> NatDigits(x.v \div 10000) \o <<"-">> \o Pad2((x.v \div 100) % 100)
                         \o <<"-">> \o Pad2(x.v % 100)
                         \o <<" ", "0", "0", ":", "0", "0", ":", "0", "0">>
    [] OTHER -> <<"n", "a", "n">>

RECURSIVE LStrip(_)
LStrip(s) == IF s # <<>> /\ Head(s) = " " THEN LStrip(Tail(s)) ELSE s

RECURSIVE RStrip(_)
RStrip(s) == IF s # <<>> /\ s[Len(s)] = " " THEN RStrip(Take(s, Len(s) - 1)) ELSE s

\* str.strip()
Strip(s) == RStrip(LStrip(s))

\* ------------------------------------------------------------------------
\* is_blank
\* ------------------------------------------------------------------------
\* is_blank written without the whitespace test
is_blank_null_only(x) == isna(x)

is_blank(x) == IF isna(x) THEN TRUE ELSE Strip(StrOf(x)) = <<>>

\* ------------------------------------------------------------------------
\* normalize_romp
\* ------------------------------------------------------------------------
RECURSIVE DigitRun(_)
\* the longest prefix of s made of digits
DigitRun(s) == IF s # <<>> /\ Head(s) \in Digits
               THEN <<Head(s)>> \o DigitRun(Tail(s)) ELSE <<>>

RECURSIVE FirstDigitRun(_)
\* re.search(r"(\d+)", s).group(1), or <<>> when there is no match
FirstDigitRun(s) == IF s = <<>> THEN <<>>
                    ELSE IF Head(s) \in Digits THEN DigitRun(s)
                    ELSE FirstDigitRun(Tail(s))

RECURSIVE zfill(_, _)
zfill(s, w) == IF Len(s) >= w THEN s ELSE zfill(<<"0">> \o s, w)

normalize_romp(val) ==
  IF isna(val) THEN Null
  ELSE LET m == FirstDigitRun(Strip(StrOf(val)))
       IN IF m # <<>> THEN Str(zfill(m, 2)) ELSE Null

\* ------------------------------------------------------------------------
\* normalize_sap_to_int
\* ------------------------------------------------------------------------
\* re.fullmatch(r"\d+\.0", s)
MatchesDigitsDotZero(s) ==
  /\ Len(s) >= 3
  /\ s[Len(s)] = "0"
  /\ s[Len(s) - 1] = "."
  /\ AllDigits(Take(s, Len(s) - 2))

RECURSIVE StripZeros(_)
StripZeros(s) == IF s # <<>> /\ Head(s) = "0" THEN StripZeros(Tail(s)) ELSE s

RECURSIVE Zeros(_)
Zeros(n) == IF n <= 0 THEN <<>> ELSE <<"0">> \o Zeros(n - 1)

RECURSIVE DigitsToNat(_)
DigitsToNat(s) == IF s = <<>> THEN 0
                  ELSE DigitsToNat(Take(s, Len(s) - 1)) * 10 + DigitVal[s[Len(s)]]

\* the exponent a digit string denotes; beyond four digits it saturates
ExpValue(s) == IF Len(StripZeros(s)) > 4 THEN 10000 ELSE DigitsToNat(StripZeros(s))

Int64Max == <<"9", "2", "2", "3", "3", "7", "2", "0", "3", "6", "8", "5", "4", "7", "7", "5", "8", "0", "7">>

RECURSIVE DigitsLeq(_, _)
\* a <= b for two digit strings of the same length
DigitsLeq(a, b) == IF a = <<>> THEN TRUE
                   ELSE IF DigitVal[Head(a)] < DigitVal[Head(b)] THEN TRUE
                   ELSE IF DigitVal[Head(a)] > DigitVal[Head(b)] THEN FALSE
                   ELSE DigitsLeq(Tail(a), Tail(b))

\* a, b canonical (no leading zeros): a <= b
MagLeq(a, b) == IF Len(a) # Len(b) THEN Len(a) < Len(b) ELSE DigitsLeq(a, b)

HasSign(s) == s # <<>> /\ Head(s) \in {"+", "-"}
SignOf(s) == IF s # <<>> /\ Head(s) = "-" THEN -1 ELSE 1
Unsigned(s) == IF HasSign(s) THEN Tail(s) ELSE s

\* index of the first exponent marker in s, 0 when there is none
ExpIndex(s) == IF \E i \in 1..Len(s) : s[i] \in {"e", "E"}
               THEN CHOOSE i \in 1..Len(s) :
                      s[i] \in {"e", "E"} /\ \A j \in 1..(i - 1) : s[j] \notin {"e", "E"}
               ELSE 0

\* the decomposition xstrtod makes of an unsigned numeral:
\* integer digits, fraction digits, exponent sign and digits
Numeral(u) ==
  LET ei == ExpIndex(u)
      mant == IF ei = 0 THEN u ELSE Take(u, ei - 1)
      ex == IF ei = 0 THEN <<>> ELSE Drop(u, ei)
      ip == DigitRun(mant)
      rest == Drop(mant, Len(ip))
      hasDot == rest # <<>> /\ Head(rest) = "."
      fp == IF hasDot THEN Tail(rest) ELSE <<>>
  IN [ok |-> /\ (rest = <<>> \/ hasDot)
             /\ AllDigits(fp)
             /\ Len(ip) + Len(fp) > 0
             /\ (ei # 0 => /\ Unsigned(ex) # <<>>
                           /\ AllDigits(Unsigned(ex))),
      ip |-> ip, fp |-> fp,
      exp |-> IF ei = 0 \/ ~AllDigits(Unsigned(ex)) THEN 0
              ELSE SignOf(ex) * ExpValue(Unsigned(ex))]

Inf(sign) == [t |-> "inf", s |-> <<>>, v |-> sign]
\* a finite number whose integer part is beyond the largest 64-bit integer
Huge(sign) == [t |-> "huge", s |-> <<>>, v |-> sign]

\* pd.to_numeric(s, errors="coerce") on a scalar str, followed by the
\* truncation int() makes of a finite value
to_numeric(s) ==
  LET u == Unsigned(s)
      sg == SignOf(s)
      n == Numeral(u)
      m == n.ip \o n.fp
      z == Len(m) - Len(StripZeros(m))
      intLen == Len(n.ip) + n.exp
      mag == IF intLen <= 0 THEN <<>>
             ELSE IF intLen <= Len(m) THEN StripZeros(Take(m, intLen))
             ELSE StripZeros(m) \o Zeros(intLen - Len(m))
  IN IF u \in {<<"i", "n", "f">>, <<"i", "n", "f", "i", "n", "i", "t", "y">>} THEN Inf(sg)
     ELSE IF ~n.ok THEN Null
     ELSE IF StripZeros(m) = <<>> THEN IntCell(<<"0">>, 1)
     ELSE IF intLen - z > 309 THEN Inf(sg)
     ELSE IF intLen - z > 19 THEN Huge(sg)
     ELSE IF mag = <<>> THEN IntCell(<<"0">>, 1)
     ELSE IF ~MagLeq(mag, Int64Max) THEN Huge(sg)
     ELSE IntCell(mag, sg)

\* normalize_sap_to_int with errors="raise": unparseable text raises
normalize_sap_to_int_raise(val) ==
  IF isna(val) THEN Null
  ELSE LET s0 == Strip(StrOf(val))
           s == IF MatchesDigitsDotZero(s0) THEN Take(s0, Len(s0) - 2) ELSE s0
       IN IF to_numeric(s) = Null /\ s # <<>> THEN Huge(1) ELSE to_numeric(s)

\* the value of normalize_sap_to_int(val); t = "inf" stands for the
\* OverflowError int(num) raises, t = "huge" for an integer that
\* .astype("Int64") cannot hold
normalize_sap_to_int(val) ==
  IF isna(val) THEN Null
  ELSE LET s0 == Strip(StrOf(val))
           s == IF MatchesDigitsDotZero(s0) THEN Take(s0, Len(s0) - 2) ELSE s0
       IN to_numeric(s)

SapRaises(x) == x.t \in {"inf", "huge"}

\* ------------------------------------------------------------------------
\* pd.to_datetime(column, errors="coerce").dt.date
\* The text forms modelled are YYYY-MM-DD and NN/NN/YYYY; any other text
\* drawn by the model holds no digit and is unparseable in every pandas.
\* ------------------------------------------------------------------------
IsLeap(y) == (y % 4 = 0 /\ y % 100 # 0) \/ y % 400 = 0

DaysIn(y, m) == IF m = 2 THEN (IF IsLeap(y) THEN 29 ELSE 28)
                ELSE IF m \in {4, 6, 9, 11} THEN 30 ELSE 31

ValidDate(y, m, d) == y >= 1 /\ m \in 1..12 /\ d >= 1 /\ d <= DaysIn(y, m)

IsIsoText(s) ==
  /\ Len(s) = 10
  /\ s[5] = "-" /\ s[8] = "-"
  /\ AllDigits(SubSeq(s, 1, 4)) /\ AllDigits(SubSeq(s, 6, 7)) /\ AllDigits(SubSeq(s, 9, 10))

IsSlashText(s) ==
  /\ Len(s) = 10
  /\ s[3] = "/" /\ s[6] = "/"
  /\ AllDigits(SubSeq(s, 1, 2)) /\ AllDigits(SubSeq(s, 4, 5)) /\ AllDigits(SubSeq(s, 7, 10))

MkDate(y, m, d) == IF ValidDate(y, m, d) THEN DateCell(y, m, d) ELSE Null

\* strict parse of text s under one format
ParseAs(fmt, s) ==
  CASE fmt = "iso" /\ IsIsoText(s) ->
         MkDate(DigitsToNat(SubSeq(s, 1, 4)), DigitsToNat(SubSeq(s, 6, 7)),
                DigitsToNat(SubSeq(s, 9, 10)))
    [] fmt = "mdy" /\ IsSlashText(s) ->
         MkDate(DigitsToNat(SubSeq(s, 7, 10)), DigitsToNat(SubSeq(s, 1, 2)),
                DigitsToNat(SubSeq(s, 4, 5)))
    [] fmt = "dmy" /\ IsSlashText(s) ->
         MkDate(DigitsToNat(SubSeq(s, 7, 10)), DigitsToNat(SubSeq(s, 4, 5)),
                DigitsToNat(SubSeq(s, 1, 2)))
    [] OTHER -> Null

\* the format guessed from one text: month first unless the first field
\* cannot be a month; "none" when no format is recognised
GuessFormat(s) ==
  IF IsIsoText(s) /\ ParseAs("iso", s) # Null THEN "iso"
  ELSE IF IsSlashText(s) /\ ParseAs("mdy", s) # Null THEN "mdy"
  ELSE IF IsSlashText(s) /\ ParseAs("dmy", s) # Null THEN "dmy"
  ELSE "none"

\* element-wise parse of one cell (no format fixed for the column)
ParseDateCell(x) ==
  CASE x.t = "date" -> x
    [] x.t = "str" -> LET s == Strip(x.s) IN ParseAs(GuessFormat(s), s)
    [] x.t \in {"int", "float"} ->
         \* a number is nanoseconds since the epoch (less than a day here)
         IF x.v < 0 /\ x.s # <<"0">> THEN DateCell(1969, 12, 31) ELSE DateCell(1970, 1, 1)
    [] OTHER -> Null

\* col is the sequence of cells of the column.  With inferFormat (pandas 2
\* and later) the format of the first non-null element, when it is text of
\* a recognised format, is applied to every text of the column; otherwise
\* every element is parsed on its own.
to_datetime(col, inferFormat) ==
  LET nn == {i \in 1..Len(col) : ~isna(col[i])}
      first == IF nn = {} THEN Null ELSE col[CHOOSE i \in nn : \A j \in nn : i <= j]
      fmt == IF inferFormat /\ first.t = "str" THEN GuessFormat(Strip(first.s)) ELSE "none"
  IN [i \in 1..Len(col) |->
        IF fmt # "none" /\ col[i].t = "str"
        THEN ParseAs(fmt, Strip(col[i].s))
        ELSE ParseDateCell(col[i])]

\* ------------------------------------------------------------------------
\* Frames.  A raw file is [cols, rows]: rows is a sequence of functions
\* from the column names of the file to cells.  A frame is a sequence of
\* [idx, row]: idx is the pandas index label (the position in the file).
\* ------------------------------------------------------------------------
required == <<"SAP", "ROMP", "Catalog", "Shipped Qty", "Ship Date", "Carrier">>

Required == {required[i] : i \in 1..Len(required)}

\* equality of two cells as drop_duplicates sees it (5 == 5.0)
CellEq(a, b) == IF a.t \in {"int", "float"} /\ b.t \in {"int", "float"}
                THEN a.s = b.s /\ a.v = b.v
                ELSE a = b

RowEq(r1, r2) == /\ DOMAIN r1 = DOMAIN r2
                 /\ \A c \in DOMAIN r1 : CellEq(r1[c], r2[c])

RECURSIVE KeepWhere(_, _)
\* df[mask]: the rows of frame f whose idx is in the set keep
KeepWhere(f, keep) ==
  IF f = <<>> THEN <<>>
  ELSE (IF Head(f).idx \in keep THEN <<Head(f)>> ELSE <<>>) \o KeepWhere(Tail(f), keep)

\* drop_duplicates whose result is not assigned
drop_duplicates_unassigned(f) == f

\* DataFrame.drop_duplicates(): keep the first of the rows equal in every column
drop_duplicates(f) ==
  KeepWhere(f, {f[i].idx : i \in {k \in 1..Len(f) :
                                   \A j \in 1..(k - 1) : ~RowEq(f[j].row, f[k].row)}})

\* dropna(how="all"): drop a row only when every subset column is null
dropna_all(f, subset) ==
  KeepWhere(f, {f[i].idx : i \in {k \in 1..Len(f) :
                                   \E c \in subset : ~isna(f[k].row[c])}})

\* DataFrame.dropna(subset=...): drop the rows with a null in a subset column
dropna(f, subset) ==
  KeepWhere(f, {f[i].idx : i \in {k \in 1..Len(f) :
                                   \A c \in subset : ~isna(f[k].row[c])}})

NoError == [kind |-> "none", file |-> 0, missing |-> <<>>]

\* the frame pd.read_excel gives: the rows under the index 1, 2, ...
ReadFrame(file) == [i \in 1..Len(file.rows) |-> [idx |-> i, row |-> file.rows[i]]]

\* [c for c in required if c not in df.columns]
MissingColumns(file) == SelectSeq(required, LAMBDA c : c \notin file.cols)

\* delete row if Shipped Qty OR Ship Date is blank
FilterBlank(df) ==
  KeepWhere(df, {df[i].idx : i \in {k \in 1..Len(df) :
                                      /\ ~is_blank(df[k].row["Shipped Qty"])
                                      /\ ~is_blank(df[k].row["Ship Date"])}})

ShipDates(df) == [i \in 1..Len(df) |-> df[i].row["Ship Date"]]

\* the three column assignments; dates is the parsed Ship Date column
Coerce(df, dates) ==
  [i \in 1..Len(df) |->
     [idx |-> df[i].idx,
      row |-> [c \in DOMAIN df[i].row |->
                 CASE c = "ROMP" -> normalize_romp(df[i].row["ROMP"])
                   [] c = "SAP" -> normalize_sap_to_int(df[i].row["SAP"])
                   [] c = "Ship Date" -> dates[i]
                   [] OTHER -> df[i].row[c]]]]

\* df[required]
Project(df) ==
  [i \in 1..Len(df) |-> [idx |-> df[i].idx, row |-> [c \in Required |-> df[i].row[c]]]]

\* the rest of clean_one_file once the columns are coerced
CleanCoerced(name, df) ==
  IF \E i \in 1..Len(df) : SapRaises(df[i].row["SAP"])
  THEN [err |-> [kind |-> "OverflowError", file |-> name, missing |-> <<>>],
        frame |-> <<>>]
  ELSE [err |-> NoError,
        frame |-> Project(drop_duplicates(dropna(df, {"ROMP", "SAP", "Ship Date"})))]

\* clean_one_file from the blank filter on
CleanFiltered(name, df, inferFormat) ==
  CleanCoerced(name, Coerce(df, to_datetime(ShipDates(df), inferFormat)))

\* clean_one_file: [err, frame]
clean_one_file(name, file, inferFormat) ==
  IF MissingColumns(file) # <<>>
  THEN [err |-> [kind |-> "ValueError", file |-> name, missing |-> MissingColumns(file)],
        frame |-> <<>>]
  ELSE CleanFiltered(name, FilterBlank(ReadFrame(file)), inferFormat)

\* ------------------------------------------------------------------------
\* build_database.  A directory is a function from file names to raw
\* files; a name is its rank in the order sorted() puts the paths in.
\* ------------------------------------------------------------------------
RECURSIVE SortedNamesReversed(_)
\* sorted(..., reverse=True)
SortedNamesReversed(names) ==
  IF names = {} THEN <<>>
  ELSE LET n == CHOOSE x \in names : \A y \in names : x >= y
       IN <<n>> \o SortedNamesReversed(names \ {n})

RECURSIVE SortedNames(_)
\* sorted(data_dir.glob("*.xlsx"))
SortedNames(names) ==
  IF names = {} THEN <<>>
  ELSE LET n == CHOOSE x \in names : \A y \in names : x <= y
       IN <<n>> \o SortedNames(names \ {n})

RECURSIVE Concat(_)
\* pd.concat(frames, ignore_index=True)
Concat(fs) == IF fs = <<>> THEN <<>> ELSE Head(fs) \o Concat(Tail(fs))

Reindex(f) == [i \in 1..Len(f) |-> [idx |-> i, row |-> f[i].row]]

FramesOf(cleaned) == [i \in 1..Len(cleaned) |-> cleaned[i].frame]

\* build_database once every file went through clean_one_file: the first
\* error in file order propagates, else the frames are concatenated
Assemble(cleaned) ==
  IF \E i \in 1..Len(cleaned) : cleaned[i].err # NoError
  THEN [err |-> cleaned[CHOOSE i \in 1..Len(cleaned) :
                          /\ cleaned[i].err # NoError
                          /\ \A j \in 1..(i - 1) : cleaned[j].err = NoError].err,
        frames |-> <<>>, db |-> <<>>]
  ELSE [err |-> NoError, frames |-> FramesOf(cleaned),
        db |-> Reindex(drop_duplicates(Reindex(Concat(FramesOf(cleaned)))))]

\* build_database over the sorted file list
BuildFrom(files, dir, inferFormat) ==
  IF files = <<>> THEN [err |-> NoError, frames |-> <<>>, db |-> <<>>]
  ELSE Assemble([i \in 1..Len(files) |-> clean_one_file(files[i], dir[files[i]], inferFormat)])

\* [err, frames, db]
build_database(dir, inferFormat) == BuildFrom(SortedNames(DOMAIN dir), dir, inferFormat)

\* ------------------------------------------------------------------------
\* The search tabs
\* ------------------------------------------------------------------------
\* ROMP_OPTIONS = [f"{i:02d}" for i in range(1, 13)]
ROMP_OPTIONS == {Pad2(i) : i \in 1..12}

\* int(text): [ok, val]
PyInt(text) ==
  LET s == Strip(text)
      u == Unsigned(s)
      wellFormed == /\ u # <<>>
                    /\ \A i \in 1..Len(u) : u[i] \in Digits \cup {"_"}
                    /\ u[1] \in Digits /\ u[Len(u)] \in Digits
                    /\ \A i \in 1..(Len(u) - 1) : ~(u[i] = "_" /\ u[i + 1] = "_")
      ds == StripZeros(SelectSeq(u, LAMBDA c : c # "_"))
  IN IF ~wellFormed THEN [ok |-> FALSE, val |-> Null]
     ELSE IF ds = <<>> THEN [ok |-> TRUE, val |-> IntCell(<<"0">>, 1)]
     ELSE [ok |-> TRUE, val |-> IntCell(ds, SignOf(s))]

\* the mask without the SAP comparison
SapMatchRompOnly(r, romp, sap_val) == r["ROMP"] = Str(romp)

\* (db["ROMP"] == romp) & (db["SAP"] == sap_val) on one row
SapMatch(r, romp, sap_val) == r["ROMP"] = Str(romp) /\ CellEq(r["SAP"], sap_val)

\* show_results: what the run reports
show_results(m) == IF m = <<>> THEN "info_no_matches" ELSE "cards"

\* the options of the carrier selectbox for one ROMP (without "(Select)")
Carriers(tbl, romp) ==
  {Strip(StrOf(tbl[i].row["Carrier"])) :
     i \in {k \in 1..Len(tbl) : /\ tbl[k].row["ROMP"] = Str(romp)
                                /\ ~isna(tbl[k].row["Carrier"])}} \ {<<>>}

SelectLabel == <<"(", "S", "e", "l", "e", "c", "t", ")">>

\* the Ship Date values of one ROMP
DatesOf(tbl, romp) ==
  {tbl[i].row["Ship Date"].v :
     i \in {k \in 1..Len(tbl) : /\ tbl[k].row["ROMP"] = Str(romp)
                                /\ ~isna(tbl[k].row["Ship Date"])}}

\* code-point order of the characters the model uses
CharOrder == <<" ", "(", ")", "+", "-", ".", "/",
               "0", "1", "2", "3", "4", "5", "6", "7", "8", "9", ":",
               "A", "B", "C", "D", "E", "F", "G", "H", "I", "J", "K", "L", "M",
               "N", "O", "P", "Q", "R", "S", "T", "U", "V", "W", "X", "Y", "Z", "_",
               "a", "b", "c", "d", "e", "f", "g", "h", "i", "j", "k", "l", "m",
               "n", "o", "p", "q", "r", "s", "t", "u", "v", "w", "x", "y", "z">>

CharCode(c) == CHOOSE i \in 1..Len(CharOrder) : CharOrder[i] = c

RECURSIVE TextLess(_, _)
TextLess(a, b) == IF b = <<>> THEN FALSE
                  ELSE IF a = <<>> THEN TRUE
                  ELSE IF Head(a) # Head(b) THEN CharCode(Head(a)) < CharCode(Head(b))
                  ELSE TextLess(Tail(a), Tail(b))

\* a < b for two cells of one column, nulls last
CellLess(a, b) ==
  IF isna(a) THEN FALSE
  ELSE IF isna(b) THEN TRUE
  ELSE CASE a.t = "date" -> a.v < b.v
         [] a.t \in {"int", "float"} ->
              IF a.v # b.v THEN a.v < b.v
              ELSE IF a.v > 0 THEN ~MagLeq(b.s, a.s) ELSE ~MagLeq(a.s, b.s)
         [] OTHER -> TextLess(StrOf(a), StrOf(b))

\* r1 strictly before r2 under the keys, compared in turn
KeyLess(r1, r2, keys) ==
  \E k \in 1..Len(keys) :
     /\ CellLess(r1[keys[k]], r2[keys[k]])
     /\ \A j \in 1..(k - 1) : ~CellLess(r1[keys[j]], r2[keys[j]])
                              /\ ~CellLess(r2[keys[j]], r1[keys[j]])

RECURSIVE InsertSorted(_, _, _)
InsertSorted(x, sorted, keys) ==
  IF sorted = <<>> THEN <<x>>
  ELSE IF KeyLess(x.row, Head(sorted).row, keys) THEN <<x>> \o sorted
  ELSE <<Head(sorted)>> \o InsertSorted(x, Tail(sorted), keys)

RECURSIVE sort_values(_, _)
\* a stable sort: equal keys keep their order
sort_values(tbl, keys) ==
  IF tbl = <<>> THEN <<>>
  ELSE InsertSorted(tbl[Len(tbl)], sort_values(Take(tbl, Len(tbl) - 1), keys), keys)

\* ------------------------------------------------------------------------
\* The inputs: the spreadsheets of the data directory
\* ------------------------------------------------------------------------
AllCols == Required \cup {"Notes"}

\* a spreadsheet row from its seven cells
MkRow(r) == [c \in AllCols |->
               CASE c = "SAP" -> r.SAP [] c = "ROMP" -> r.ROMP
                 [] c = "Catalog" -> r.Catalog [] c = "Shipped Qty" -> r.Qty
                 [] c = "Ship Date" -> r.Date [] c = "Carrier" -> r.Carrier
                 [] OTHER -> r.Notes]

\* a complete row in text form
RowA ==
  MkRow([SAP |-> Str(<<"1", "0">>), ROMP |-> Str(<<"R", "O", "M", "P", "0", "1">>), Catalog |-> Str(<<"X">>),
          Qty |-> IntCell(<<"5">>, 1), Date |-> Str(<<"2", "0", "2", "4", "-", "0", "1", "-", "1", "0">>),
          Carrier |-> Str(<<"F", "e", "d", "E", "x">>), Notes |-> Str(<<"a">>)])

\* the shipment of RowA in other encodings and with another note
RowB ==
  MkRow([SAP |-> Str(<<"1", "0", ".", "0">>), ROMP |-> Str(<<"1">>), Catalog |-> Str(<<"X">>),
          Qty |-> IntCell(<<"5">>, 1), Date |-> DateCell(2024, 1, 10),
          Carrier |-> Str(<<"F", "e", "d", "E", "x">>), Notes |-> Str(<<"b">>)])

\* a complete row whose SAP text is the numeral inf
RowC ==
  MkRow([SAP |-> Str(<<"i", "n", "f">>), ROMP |-> Str(<<"0", "2">>), Catalog |-> Str(<<"Y">>),
          Qty |-> IntCell(<<"3">>, 1), Date |-> Str(<<"2", "0", "2", "4", "-", "0", "2", "-", "0", "1">>),
          Carrier |-> Str(<<"U", "P", "S">>), Notes |-> Str(<<"a">>)])

\* a second shipment of ROMP 01, in typed cells and a month-first date
RowD ==
  MkRow([SAP |-> FloatCell(<<"1", "7", "0">>, 1), ROMP |-> IntCell(<<"1">>, 1), Catalog |-> Null,
          Qty |-> Str(<<"3">>), Date |-> Str(<<"0", "1", "/", "0", "5", "/", "2", "0", "2", "4">>),
          Carrier |-> Str(<<" ", "U", "P", "S">>), Notes |-> Null])

MainRows == {RowA, RowB, RowC, RowD}

\* every sequence over S of length lo..hi
SeqsOf(S, lo, hi) == UNION {[1..n -> S] : n \in lo..hi}

\* a sheet without the Carrier column (a sheet has at least one row)
NoCarrierFile ==
  [cols |-> AllCols \ {"Carrier"},
   rows |-> <<[c \in AllCols \ {"Carrier"} |-> RowA[c]]>>]

\* the sheets of at most n rows: every column present, or Carrier absent
FilesUpTo(n) == {[cols |-> AllCols, rows |-> rs] : rs \in SeqsOf(MainRows, 1, n)}
                  \cup (IF n >= 1 THEN {NoCarrierFile} ELSE {})

RECURSIVE DirsOver(_, _)
\* the directories with one sheet per name and at most budget rows in all
DirsOver(names, budget) ==
  IF names = {} THEN {<<>>}
  ELSE LET n == CHOOSE x \in names : \A y \in names : x <= y
       IN UNION {{(n :> f) @@ d : d \in DirsOver(names \ {n}, budget - Len(f.rows))} :
                   f \in FilesUpTo(budget - (Cardinality(names) - 1))}

MainDirs == UNION {DirsOver(names, MaxRows) : names \in SUBSET (1..MaxFiles)}

\* --- single-row sheets that vary one cell at a time ---
SapChars == {"0", "1", "4", ".", "e", "-", " ", "N"}
RompChars == {"0", "3", "R", " "}

SapExamples == {<<"4", "0", ".", "0">>, <<"0", "0", "0", "0", "1", "0">>, <<"4", "0">>, <<"N", "/", "A">>, <<"i", "n", "f">>, <<"-", "i", "n", "f">>, <<"1", "e", "4", "0", "0">>, <<"1", "7", "0", ".", "0">>, <<" ", "1", "0", " ">>, <<"4", ".", "7">>}

RompExamples == {<<"R", "O", "M", "P", "3">>, <<"R", "O", "M", "P", "0", "3">>, <<"R", "O", "M", "P", "0", "0", "3">>, <<"1", "2", "3">>, <<"1", "2">>, <<"a", "b", "c">>}

SapCells == {Str(s) : s \in SeqsOf(SapChars, 0, MaxLen) \cup SapExamples}
              \cup {Null, IntCell(<<"4", "0">>, 1), FloatCell(<<"4", "0">>, 1)}

RompCells == {Str(s) : s \in SeqsOf(RompChars, 0, MaxLen) \cup RompExamples}
               \cup {Null, IntCell(<<"3">>, 1), FloatCell(<<"3">>, 1)}

\* rows whose four checked cells each range over good and bad values
MixedRows ==
  {[RowA EXCEPT !["SAP"] = sap, !["ROMP"] = romp,
                !["Shipped Qty"] = qty, !["Ship Date"] = date] :
     sap \in {Str(<<"1", "0">>), Str(<<"N", "/", "A">>), Str(<<"i", "n", "f">>), Null},
     romp \in {Str(<<"1", "2">>), Str(<<"a", "b", "c">>), Null},
     qty \in {IntCell(<<"5">>, 1), Str(<<" ", " ">>), Str(<<>>), Null},
     date \in {Str(<<"2", "0", "2", "4", "-", "0", "1", "-", "1", "0">>), Str(<<"0", "1", "/", "1", "0", "/", "2", "0", "2", "4">>), DateCell(2024, 1, 5), Str(<<"N", "/", "A">>), Str(<<" ">>), Null}}

CellRows == {[RowA EXCEPT !["SAP"] = c] : c \in SapCells}
              \cup {[RowA EXCEPT !["ROMP"] = c] : c \in RompCells}
              \cup MixedRows

CellDirs == {(1 :> [cols |-> AllCols, rows |-> <<r>>]) : r \in CellRows}

\* the ROMP the user picks, among ROMP_OPTIONS
RompInputs == {Pad2(1), Pad2(12)}

\* what the user may type in the SAP box
SapInputs == {<<"1", "0">>, <<" ", "1", "7", "0", " ">>, <<"9", "9">>, <<"1", "_", "0">>, <<"1", ".", "0">>}

\* what the user may pick in the date box
DateInputs == {DateCell(2024, 1, 5), DateCell(2024, 1, 7), DateCell(2024, 1, 10)}

\* ------------------------------------------------------------------------
\* State
\* ------------------------------------------------------------------------
VARIABLES data_dir,      \* the spreadsheets under DATA_DIR
          inferFormat,   \* whether the installed pandas infers one date format per column
          pc,            \* "start", "ready" (table built) or "failed" (build raised)
          frames,        \* the frames clean_one_file returned, in file order
          db,            \* the table build_database returned
          err,           \* the exception build_database raised
          query,         \* the widgets of the tab whose Search was clicked
          matches,       \* the rows the last search selected
          msg            \* what the last run reported

vars == <<data_dir, inferFormat, pc, frames, db, err, query, matches, msg>>

NoQuery == [tab |-> "none", romp |-> <<>>, text |-> <<>>, val |-> Null]

InitWith(dirs) ==
  /\ data_dir \in dirs
  /\ inferFormat \in BOOLEAN
  /\ pc = "start"
  /\ frames = <<>>
  /\ db = <<>>
  /\ err = NoError
  /\ query = NoQuery
  /\ matches = <<>>
  /\ msg = "none"

Init == InitWith(MainDirs)

\* db = build_database(DATA_DIR)
Build ==
  /\ pc = "start"
  /\ \E r \in {build_database(data_dir, inferFormat)} :
        /\ pc' = IF r.err = NoError THEN "ready" ELSE "failed"
        /\ frames' = r.frames
        /\ db' = r.db
        /\ err' = r.err
  /\ query' = NoQuery
  /\ matches' = <<>>
  /\ msg' = "none"
  /\ UNCHANGED <<data_dir, inferFormat>>

\* tab_sap, Search clicked
SearchSap ==
  /\ pc = "ready"
  /\ \E romp \in RompInputs, sap_text \in SapInputs :
       LET sap_val == PyInt(sap_text)
           m == SelectSeq(db, LAMBDA x : SapMatch(x.row, romp, sap_val.val))
       IN /\ query' = [tab |-> "sap", romp |-> romp, text |-> sap_text, val |-> sap_val.val]
          /\ IF ~sap_val.ok
             THEN matches' = <<>> /\ msg' = "error_sap"
             ELSE matches' = m /\ msg' = show_results(m)
  /\ UNCHANGED <<data_dir, inferFormat, pc, frames, db, err>>

\* tab_carrier, Search clicked
SearchCarrier ==
  /\ pc = "ready"
  /\ \E romp \in RompInputs :
       \E carrier \in {SelectLabel} \cup Carriers(db, romp) :
         LET carrier_norm == Strip(carrier)
             m == SelectSeq(db, LAMBDA x : /\ x.row["ROMP"] = Str(romp)
                                           /\ Strip(StrOf(x.row["Carrier"])) = carrier_norm)
         IN /\ query' = [tab |-> "carrier", romp |-> romp, text |-> carrier, val |-> Null]
            /\ IF carrier = SelectLabel
               THEN matches' = <<>> /\ msg' = "error_select"
               ELSE matches' = m /\ msg' = show_results(m)
  /\ UNCHANGED <<data_dir, inferFormat, pc, frames, db, err>>

\* tab_date, Search clicked (the button exists only when the ROMP has dates)
SearchDate ==
  /\ pc = "ready"
  /\ \E romp \in RompInputs :
       LET dates == DatesOf(db, romp)
       IN /\ dates # {}
          /\ \E ship_date \in DateInputs :
               /\ \E lo \in dates : lo <= ship_date.v
               /\ \E hi \in dates : ship_date.v <= hi
               /\ LET m == SelectSeq(db, LAMBDA x : /\ x.row["ROMP"] = Str(romp)
                                                     /\ x.row["Ship Date"] = ship_date)
                  IN /\ query' = [tab |-> "date", romp |-> romp, text |-> <<>>, val |-> ship_date]
                     /\ matches' = m /\ msg' = show_results(m)
  /\ UNCHANGED <<data_dir, inferFormat, pc, frames, db, err>>

\* tab_romp, Search clicked
SearchRomp ==
  /\ pc = "ready"
  /\ \E romp \in RompInputs :
       LET m == sort_values(SelectSeq(db, LAMBDA x : x.row["ROMP"] = Str(romp)),
                            <<"Ship Date", "SAP", "Catalog">>)
       IN /\ query' = [tab |-> "romp", romp |-> romp, text |-> <<>>, val |-> Null]
          /\ matches' = m /\ msg' = show_results(m)
  /\ UNCHANGED <<data_dir, inferFormat, pc, frames, db, err>>

Next == Build \/ SearchSap \/ SearchCarrier \/ SearchDate \/ SearchRomp

Spec == Init /\ [][Next]_vars

\* the same program over the single-row sheets
InitCells == InitWith(CellDirs)

SpecCells == InitCells /\ [][Next]_vars

\* ------------------------------------------------------------------------
\* Properties
\* ------------------------------------------------------------------------
\* the name of the k-th sheet in file-name order
NthName(k) == CHOOSE n \in DOMAIN data_dir :
                Cardinality({m \in DOMAIN data_dir : m < n}) = k - 1

\* the raw row a row of the k-th frame was read from
RawOf(k, i) == data_dir[NthName(k)].rows[frames[k][i].idx]

\* blank as the specification words it: absent, or text of spaces only
BlankCell(x) == \/ x.t = "null"
                \/ x.t = "str" /\ \A i \in 1..Len(x.s) : x.s[i] = " "

SameSix(r1, r2) == \A c \in Required : r1[c] = r2[c]

AllFrameRows == UNION {{frames[k][i].row : i \in 1..Len(frames[k])} : k \in 1..Len(frames)}

\* C1: the table build_database returns holds no two rows equal in the six
\* fields, and every row a sheet contributes, however encoded, is in the
\* table exactly once.
C1_NoDuplicateRows ==
  pc = "ready" =>
    /\ \A i, j \in 1..Len(db) : i # j => ~SameSix(db[i].row, db[j].row)
    /\ \A k \in 1..Len(frames) : \A i \in 1..Len(frames[k]) :
         Cardinality({n \in 1..Len(db) : RowEq(db[n].row, frames[k][i].row)}) = 1

\* two sheets hold the same shipment in different raw encodings
C1_Witness ==
  /\ pc = "ready"
  /\ Len(frames) = 2
  /\ \E i \in 1..Len(frames[1]), j \in 1..Len(frames[2]) :
       /\ SameSix(frames[1][i].row, frames[2][j].row)
       /\ ~SameSix(RawOf(1, i), RawOf(2, j))

\* C2: every ROMP of the table is exactly two digit characters.
C2_RompTwoDigits ==
  pc = "ready" =>
    \A i \in 1..Len(db) :
      /\ db[i].row["ROMP"].t = "str"
      /\ Len(db[i].row["ROMP"].s) = 2
      /\ AllDigits(db[i].row["ROMP"].s)

\* the sheets that lack a required column
BadSheets == {n \in DOMAIN data_dir : ~(Required \subseteq data_dir[n].cols)}

\* C3: when a sheet lacks a required column the build fails with an error
\* naming that sheet and its missing columns, and no table is returned.
C3_MissingColumnFails ==
  (pc # "start" /\ BadSheets # {}) =>
    /\ pc = "failed"
    /\ db = <<>>
    /\ err.kind = "ValueError"
    /\ err.file \in BadSheets
    /\ {err.missing[i] : i \in 1..Len(err.missing)} = Required \ data_dir[err.file].cols

\* C4: a row whose Shipped Qty or Ship Date is blank is in no frame and not
\* in the table, and its other cells are never coerced: an OverflowError
\* comes from a row of the named sheet that has both cells.
C4_BlankRowsFiltered ==
  /\ pc = "ready" =>
       /\ \A k \in 1..Len(frames) : \A i \in 1..Len(frames[k]) :
            /\ ~BlankCell(RawOf(k, i)["Shipped Qty"])
            /\ ~BlankCell(RawOf(k, i)["Ship Date"])
       /\ \A n \in 1..Len(db) :
            /\ ~BlankCell(db[n].row["Shipped Qty"])
            /\ ~BlankCell(db[n].row["Ship Date"])
            /\ \E r \in AllFrameRows : RowEq(r, db[n].row)
  /\ (pc = "failed" /\ err.kind = "OverflowError") =>
       \E i \in 1..Len(data_dir[err.file].rows) :
         /\ ~BlankCell(data_dir[err.file].rows[i]["Shipped Qty"])
         /\ ~BlankCell(data_dir[err.file].rows[i]["Ship Date"])

\* a sheet whose only row has a whitespace quantity and an SAP that would
\* overflow was cleaned to an empty frame
C4_Witness ==
  /\ pc = "ready"
  /\ frames = << <<>> >>
  /\ data_dir[1].rows[1]["Shipped Qty"] = Str(<<" ", " ">>)
  /\ data_dir[1].rows[1]["SAP"] = Str(<<"i", "n", "f">>)

\* C5: every row of the table has an SAP, a ROMP and a Ship Date.
C5_KeyFieldsPresent ==
  pc = "ready" =>
    \A i \in 1..Len(db) :
      /\ db[i].row["SAP"].t = "int"
      /\ db[i].row["ROMP"].t = "str"
      /\ db[i].row["Ship Date"].t = "date"

\* a row with quantity and date but a ROMP without digits was dropped
C5_Witness ==
  /\ pc = "ready"
  /\ db = <<>>
  /\ data_dir[1].rows[1]["ROMP"] = Str(<<"a", "b", "c">>)
  /\ data_dir[1].rows[1]["SAP"] = Str(<<"1", "0">>)
  /\ data_dir[1].rows[1]["Shipped Qty"] = IntCell(<<"5">>, 1)
  /\ data_dir[1].rows[1]["Ship Date"] = DateCell(2024, 1, 5)

\* C6: with every required column present the build never raises.
C6_OnlySchemaErrors ==
  (pc # "start" /\ BadSheets = {}) => (pc = "ready" /\ err = NoError)

\* C7: no frame clean_one_file returns holds two rows equal in the six
\* output fields.
C7_FrameNoDuplicates ==
  pc = "ready" =>
    \A k \in 1..Len(frames) : \A i, j \in 1..Len(frames[k]) :
      i # j => ~SameSix(frames[k][i].row, frames[k][j].row)

\* the rows of every frame, sheet by sheet in file-name order
Occurrences == Concat(frames)

FirstOcc(r) == CHOOSE p \in 1..Len(Occurrences) :
                 /\ RowEq(Occurrences[p].row, r)
                 /\ \A q \in 1..(p - 1) : ~RowEq(Occurrences[q].row, r)

\* C8: the frames are those of the sheets in file-name order, each in input
\* row order, and the table lists every surviving row once, ordered by its
\* first occurrence in their concatenation.
C8_SourceOrder ==
  pc = "ready" =>
    /\ Len(frames) = Cardinality(DOMAIN data_dir)
    /\ \A k \in 1..Len(frames) :
         /\ frames[k] = clean_one_file(NthName(k), data_dir[NthName(k)], inferFormat).frame
         /\ \A i, j \in 1..Len(frames[k]) : i < j => frames[k][i].idx < frames[k][j].idx
    /\ \A p \in 1..Len(Occurrences) : \E n \in 1..Len(db) : RowEq(db[n].row, Occurrences[p].row)
    /\ \A n \in 1..Len(db) : \E p \in 1..Len(Occurrences) : RowEq(db[n].row, Occurrences[p].row)
    /\ \A m, n \in 1..Len(db) : m < n => FirstOcc(db[m].row) < FirstOcc(db[n].row)

\* two sheets, a duplicate removed, and two rows left to order
C8_Witness ==
  /\ pc = "ready"
  /\ Len(frames) = 2
  /\ Len(db) >= 2
  /\ Len(Occurrences) > Len(db)
  /\ RowEq(Occurrences[Len(Occurrences)].row, db[1].row)

\* the only row of the only sheet, and its SAP text once trimmed
OnlyRow == data_dir[1].rows[1]
SapText == Strip(OnlyRow["SAP"].s)

\* the integer a digit string denotes
DigitsInt(ds) == IntCell(IF StripZeros(ds) = <<>> THEN <<"0">> ELSE StripZeros(ds), 1)

\* the row is RowA in every cell but SAP
OnlySapVaries == [OnlyRow EXCEPT !["SAP"] = RowA["SAP"]] = RowA

\* C9: digits followed by ".0" and plain digit strings (leading zeros or
\* not) give the integer of the digits; blank, null and non-numeric SAP
\* give no SAP and the row is dropped; every SAP of the table is an integer.
C9_SapNormalization ==
  pc # "start" =>
    /\ pc = "ready" => \A i \in 1..Len(db) :
          /\ db[i].row["SAP"].t = "int"
          /\ AllDigits(db[i].row["SAP"].s)
          /\ db[i].row["SAP"].s = <<"0">> \/ Head(db[i].row["SAP"].s) # "0"
    /\ (OnlySapVaries /\ OnlyRow["SAP"].t = "null") => (pc = "ready" /\ db = <<>>)
    /\ (OnlySapVaries /\ OnlyRow["SAP"].t = "str") =>
         /\ (SapText # <<>> /\ AllDigits(SapText)) =>
               /\ pc = "ready" /\ Len(db) = 1
               /\ db[1].row["SAP"] = DigitsInt(SapText)
         /\ (Len(SapText) >= 3 /\ AllDigits(Take(SapText, Len(SapText) - 2))
               /\ Drop(SapText, Len(SapText) - 2) = <<".", "0">>) =>
               /\ pc = "ready" /\ Len(db) = 1
               /\ db[1].row["SAP"] = DigitsInt(Take(SapText, Len(SapText) - 2))
         /\ (SapText = <<>> \/ \E i \in 1..Len(SapText) : SapText[i] \in {"N", "/", "A"}) =>
               (pc = "ready" /\ db = <<>>)

\* "000010" was read and the table holds SAP 10
C9_Witness ==
  /\ pc = "ready"
  /\ OnlySapVaries
  /\ OnlyRow["SAP"] = Str(<<"0", "0", "0", "0", "1", "0">>)
  /\ Len(db) = 1
  /\ db[1].row["SAP"] = IntCell(<<"1", "0">>, 1)

\* the rows of the table with the ROMP and the SAP of the query
SapHits == {i \in 1..Len(db) : /\ db[i].row["ROMP"].s = query.romp
                               /\ db[i].row["SAP"].s = query.val.s
                               /\ db[i].row["SAP"].v = query.val.v}

SapAnswer ==
  (query.tab = "sap" /\ msg # "error_sap") =>
    /\ {matches[k] : k \in 1..Len(matches)} = {db[i] : i \in SapHits}
    /\ Len(matches) = Cardinality(SapHits)
    /\ \A k, l \in 1..Len(matches) : k < l => matches[k].idx < matches[l].idx
    /\ msg = IF SapHits = {} THEN "info_no_matches" ELSE "cards"

\* C10: a search by ROMP and SAP selects exactly the rows of the table with
\* that ROMP and that SAP, reports "no matches" when there is none, and no
\* search of any tab changes the table.
C10_QueryExactAndPure ==
  [][/\ SapAnswer'
     /\ pc = "ready" => (db' = db /\ pc' = "ready" /\ err' = err)]_vars

\* a search by SAP selected one row of a table of several
C10_Witness ==
  /\ query.tab = "sap"
  /\ Len(matches) = 1
  /\ Len(db) >= 2
  /\ msg = "cards"

====
